---- MODULE Spec2Model ----
(***************************************************************************)
(* BuildForge backend (src/app.py): a Flask application over three MongoDB *)
(* collections (users, projects, components).  Every HTTP request runs in  *)
(* its own thread; each call on a collection (find_one, find, insert_one,  *)
(* update_one, delete_one, delete_many) is one atomic step of the store,   *)
(* and nothing makes two consecutive calls of one handler atomic.          *)
(*                                                                         *)
(* Scope of the model.  A write (insert/update/delete) may raise, which    *)
(* the handler's "except Exception" turns into a 500; a raising write has  *)
(* no effect on the store.  Reads are taken to succeed.  The timestamps    *)
(* created_at/updated_at and Mongo's _id are not represented.  Requests    *)
(* carry a valid token: get_jwt_identity() yields the user id.             *)
(***************************************************************************)
EXTENDS Integers, Sequences, FiniteSets, TLC

VARIABLES users, projects, components, issued, arrived, req, pc, local, response

vars == <<users, projects, components, issued, arrived, req, pc, local, response>>

(* ---------------------------------------------------------------- bounds *)
NReq == 2            \* request threads running concurrently
MaxRequests == 4     \* requests that arrive in one run
MaxIsolationRequests == 3   \* requests that arrive in one run of SpecIsolation
MaxHtmlComponents == 2      \* components of the stored project SpecHtml starts from
MaxHtmlRequests == 2        \* requests that arrive in one run of SpecHtml
NUsers == 2          \* users registered before the project routes are used
MaxProjects == 1     \* project ids generate_id() hands out
MaxComponents == 2   \* component ids generate_id() hands out
MaxSignups == 2      \* user ids generate_id() hands out (signup)

Slots == 1..NReq
UserIds == 1..NUsers
\* a request names an id generate_id() has handed out: a uuid4 cannot be guessed,
\* and an id that names nothing answers like the id of a deleted record
ProjectIds == 1..issued.project
ComponentIds == 1..issued.component

(* ------------------------------------------------------------ JSON values *)
Str(s) == [k |-> "str", v |-> s]
Absent == [k |-> "absent", v |-> ""]     \* key not in the request body
None == [k |-> "none", v |-> ""]         \* Python None / JSON null
Dict(f) == [k |-> "dict", v |-> f]
NotADict == [k |-> "list", v |-> ""]     \* a JSON array where a mapping is expected

\* dict.get(key, default) on the request body: the default only when the key is absent
Get(value, default) == IF value = Absent THEN default ELSE value

EmptyProps == Dict([title |-> Absent, subtitle |-> Absent, buttonText |-> Absent])
DefaultPosition == [x |-> 0, y |-> 0]
UntitledProject == Str("Untitled Project")

NoData ==
  [ email |-> Absent, password |-> Absent, name |-> Absent, description |-> Absent,
    type |-> Absent, properties |-> Absent, content |-> Absent, position |-> Absent,
    prompt |-> Absent, platform |-> Absent ]

NoReq == [op |-> "none", user |-> 0, pid |-> 0, cid |-> 0, data |-> NoData]
NoLocal == [project |-> <<>>, component |-> <<>>, res |-> 0]
NoResp == [op |-> "none", user |-> 0, pid |-> 0, cid |-> 0, data |-> NoData,
           status |-> 0, body |-> None, res |-> 0]

(* ------------------------------------------------------ collection helpers *)
\* a filter is a record of required field values, as the dict pymongo is given
Matches(d, filter) == \A f \in DOMAIN filter : d[f] = filter[f]

\* find(filter): the matching documents in the collection's natural (insertion) order
Filter(coll, filter) == SelectSeq(coll, LAMBDA d : Matches(d, filter))

\* index of the first match, 0 when there is none
FirstIndex(coll, filter) ==
  LET S == {i \in 1..Len(coll) : Matches(coll[i], filter)}
  IN  IF S = {} THEN 0 ELSE CHOOSE i \in S : \A j \in S : i <= j

\* find_one(filter): <<>> for None, <<doc>> for the first match
FindOne(coll, filter) ==
  LET i == FirstIndex(coll, filter) IN IF i = 0 THEN <<>> ELSE <<coll[i]>>

\* delete_one(filter): the collection without its first match
DeleteOne(coll, filter) ==
  LET i == FirstIndex(coll, filter)
  IN  IF i = 0 THEN coll ELSE SubSeq(coll, 1, i - 1) \o SubSeq(coll, i + 1, Len(coll))

\* delete_many(filter): the collection without any match
DeleteMany(coll, filter) == SelectSeq(coll, LAMBDA d : ~Matches(d, filter))

\* {'$set': fields} applied to a document
SetFields(d, fields) ==
  [f \in DOMAIN d |-> IF f \in DOMAIN fields THEN fields[f] ELSE d[f]]

\* update_one(filter, {'$set': fields}): the first match changed; no upsert
UpdateOne(coll, filter, fields) ==
  LET i == FirstIndex(coll, filter)
  IN  IF i = 0 THEN coll ELSE [coll EXCEPT ![i] = SetFields(coll[i], fields)]

\* matched_count / deleted_count of update_one and delete_one
MatchedCount(coll, filter) == IF FirstIndex(coll, filter) = 0 THEN 0 ELSE 1

\* $pull: every occurrence of the value leaves the array
Pull(list, x) == SelectSeq(list, LAMBDA y : y # x)

(* ------------------------------------------------------------ the queries *)
\* faulty variant: the lookup without its user_id filter
FindOwnedProject_AnyOwner(pid, uid) ==
  FindOne(projects, [project_id |-> pid])

\* find_one({'project_id': project_id, 'user_id': user_id})
FindOwnedProject(pid, uid) ==
  FindOne(projects, [project_id |-> pid, user_id |-> uid])

\* find_one({'project_id': project_id})
FindProjectById(pid) == FindOne(projects, [project_id |-> pid])

\* find_one({'component_id': component_id, 'project_id': project_id})
FindComponentOf(cid, pid) ==
  FindOne(components, [component_id |-> cid, project_id |-> pid])

\* find_one({'component_id': component_id})
FindComponentById(cid) == FindOne(components, [component_id |-> cid])

\* find({'project_id': project_id})
ComponentsOf(pid) == Filter(components, [project_id |-> pid])

\* find({'user_id': user_id})
ProjectsOf(uid) == Filter(projects, [user_id |-> uid])

\* find_one({'email': email})
FindUserByEmail(email) == FindOne(users, [email |-> email])

(* --------------------------------------------------- request bookkeeping *)
\* the handler returns: the response goes out and the thread is free again.
\* response is the answer sent by the step just taken (NoResp when it sent none),
\* so a predicate on it speaks of the store at the moment of the return.
Finish(r, status, body, res) ==
  /\ UNCHANGED arrived
  /\ response' = [op |-> req[r].op, user |-> req[r].user, pid |-> req[r].pid,
              cid |-> req[r].cid, data |-> req[r].data,
              status |-> status, body |-> body, res |-> res]
  /\ req' = [req EXCEPT ![r] = NoReq]
  /\ pc' = [pc EXCEPT ![r] = "idle"]
  /\ local' = [local EXCEPT ![r] = NoLocal]

\* the handler goes on to its next store call
Goto(r, label, loc) ==
  /\ pc' = [pc EXCEPT ![r] = label]
  /\ local' = [local EXCEPT ![r] = loc]
  /\ response' = NoResp
  /\ UNCHANGED <<req, arrived>>

Error(msg) == [k |-> "error", v |-> msg]
Message(msg) == [k |-> "message", v |-> msg]
Doc(d) == [k |-> "doc", v |-> d]

\* serialize_doc / jsonify of a find_one result
Serialized(found) == IF found = <<>> THEN None ELSE Doc(found[1])

\* a write that raises: the except clause answers 500 and the store is as it was
WriteFails(r) ==
  /\ Finish(r, 500, Error("exception"), local[r].res)
  /\ UNCHANGED <<users, projects, components, issued>>

(* ------------------------------------------------ /api/auth/signup (POST) *)
\* bcrypt.generate_password_hash(password)
PasswordHash(password) == [k |-> "bcrypt", v |-> password.v]

\* "not email": the key is missing, null or the empty string
Falsy(value) == value = Absent \/ value = None \/ value = Str("")

NewUser(r) ==
  [ user_id |-> issued.user + 1, email |-> req[r].data.email,
    password |-> PasswordHash(req[r].data.password),
    name |-> Get(req[r].data.name, None) ]

UserView(u) == [k |-> "user", v |-> [user_id |-> u.user_id, email |-> u.email, name |-> u.name]]

\* lines 52-62: validation, then the check that the email is not taken yet
SignupCheck(r) ==
  /\ pc[r] = "signup_check"
  /\ UNCHANGED <<users, projects, components, issued>>
  /\ IF Falsy(req[r].data.email) \/ Falsy(req[r].data.password)
       THEN Finish(r, 400, Error("Email and password are required"), 0)
     ELSE IF FindUserByEmail(req[r].data.email) # <<>>
       THEN Finish(r, 409, Error("User already exists"), 0)
     ELSE Goto(r, "signup_insert", local[r])

\* lines 64-91: users_collection.insert_one(user), then the token
SignupInsert(r) ==
  /\ pc[r] = "signup_insert"
  /\ \/ /\ users' = Append(users, NewUser(r))
        /\ issued' = [issued EXCEPT !.user = @ + 1]
        /\ Finish(r, 201, UserView(NewUser(r)), 1)
        /\ UNCHANGED <<projects, components>>
     \/ WriteFails(r)

(* ------------------------------------------- /api/projects (GET, POST) *)
\* line 140-143
ListProjects(r) ==
  /\ pc[r] = "list"
  /\ Finish(r, 200, [k |-> "docs", v |-> ProjectsOf(req[r].user)], 0)
  /\ UNCHANGED <<users, projects, components, issued>>

NewProject(r) ==
  [ project_id |-> issued.project + 1, user_id |-> req[r].user,
    name |-> Get(req[r].data.name, UntitledProject),
    description |-> Get(req[r].data.description, Str("")),
    components |-> <<>> ]

\* lines 146-160
CreateProject(r) ==
  /\ pc[r] = "create"
  /\ \/ /\ projects' = Append(projects, NewProject(r))
        /\ issued' = [issued EXCEPT !.project = @ + 1]
        /\ Finish(r, 201, Doc(NewProject(r)), 1)
        /\ UNCHANGED <<users, components>>
     \/ WriteFails(r)

(* --------------------------- /api/projects/<project_id> (GET, PUT, DELETE) *)
\* lines 169-176: the ownership lookup, and GET's answer
HandleProjectFind(r) ==
  /\ pc[r] = "project_find"
  /\ UNCHANGED <<users, projects, components, issued>>
  /\ LET project == FindOwnedProject(req[r].pid, req[r].user)
     IN  IF project = <<>> THEN Finish(r, 404, Error("Project not found"), 0)
         ELSE IF req[r].op = "project_get" THEN Finish(r, 200, Doc(project[1]), 0)
         ELSE IF req[r].op = "project_put"
           THEN Goto(r, "project_update", [local[r] EXCEPT !.project = project])
         ELSE Goto(r, "project_delete", local[r])  \* DELETE does not read project again

\* lines 179-184: every field of update_data is written, the omitted ones from
\* the document this request read at line 170
ProjectUpdateData(data, project) ==
  [ name |-> Get(data.name, project.name),
    description |-> Get(data.description, project.description) ]

\* faulty variant: the update_one with upsert=True, which inserts when nothing matches
SetProject_Upsert(pid, update) ==
  IF FirstIndex(projects, [project_id |-> pid]) = 0
    THEN Append(projects, [ project_id |-> pid, user_id |-> 0, name |-> update.name,
                            description |-> update.description, components |-> <<>> ])
    ELSE UpdateOne(projects, [project_id |-> pid], update)

\* update_one({'project_id': project_id}, {'$set': update_data})
SetProject(pid, update) == UpdateOne(projects, [project_id |-> pid], update)

\* lines 186-189
HandleProjectUpdate(r) ==
  /\ pc[r] = "project_update"
  /\ \/ /\ projects' = SetProject(req[r].pid, ProjectUpdateData(req[r].data, local[r].project[1]))
        /\ Goto(r, "project_reread",
                [local[r] EXCEPT !.res = MatchedCount(projects, [project_id |-> req[r].pid])])
        /\ UNCHANGED <<users, components, issued>>
     \/ WriteFails(r)

\* lines 191-192
HandleProjectReread(r) ==
  /\ pc[r] = "project_reread"
  /\ Finish(r, 200, Serialized(FindProjectById(req[r].pid)), local[r].res)
  /\ UNCHANGED <<users, projects, components, issued>>

\* line 195: projects_collection.delete_one({'project_id': project_id})
HandleProjectDelete(r) ==
  /\ pc[r] = "project_delete"
  /\ \/ /\ projects' = DeleteOne(projects, [project_id |-> req[r].pid])
        /\ Goto(r, "project_cascade",
                [local[r] EXCEPT !.res = MatchedCount(projects, [project_id |-> req[r].pid])])
        /\ UNCHANGED <<users, components, issued>>
     \/ WriteFails(r)

\* lines 197-198: components_collection.delete_many({'project_id': project_id})
HandleProjectCascade(r) ==
  /\ pc[r] = "project_cascade"
  /\ \/ /\ components' = DeleteMany(components, [project_id |-> req[r].pid])
        /\ Finish(r, 200, Message("Project deleted successfully"), local[r].res)
        /\ UNCHANGED <<users, projects, issued>>
     \/ WriteFails(r)

(* ------------------------- /api/projects/<project_id>/components (POST) *)
\* lines 207-211
AddComponentFind(r) ==
  /\ pc[r] = "add_find"
  /\ UNCHANGED <<users, projects, components, issued>>
  /\ LET project == FindOwnedProject(req[r].pid, req[r].user)
     IN  IF project = <<>> THEN Finish(r, 404, Error("Project not found"), 0)
         ELSE Goto(r, "add_insert", local[r])  \* project is not read again

\* lines 216-225: data.get('type') is None when the body has no type
NewComponent(r) ==
  [ component_id |-> issued.component + 1, project_id |-> req[r].pid,
    type |-> Get(req[r].data.type, None),
    properties |-> Get(req[r].data.properties, EmptyProps),
    content |-> Get(req[r].data.content, Str("")),
    position |-> Get(req[r].data.position, DefaultPosition) ]

\* line 227: components_collection.insert_one(component)
AddComponentInsert(r) ==
  /\ pc[r] = "add_insert"
  /\ \/ /\ components' = Append(components, NewComponent(r))
        /\ issued' = [issued EXCEPT !.component = @ + 1]
        /\ Goto(r, "add_push", [local[r] EXCEPT !.component = <<NewComponent(r)>>])
        /\ UNCHANGED <<users, projects>>
     \/ WriteFails(r)

\* update_one({'project_id': project_id}, {'$push': {'components': component_id}, ...})
PushComponent(pid, cid) ==
  LET i == FirstIndex(projects, [project_id |-> pid])
  IN  IF i = 0 THEN projects
      ELSE [projects EXCEPT ![i].components = Append(@, cid)]

\* lines 230-235
AddComponentPush(r) ==
  /\ pc[r] = "add_push"
  /\ \/ /\ projects' = PushComponent(req[r].pid, local[r].component[1].component_id)
        /\ Finish(r, 201, Doc(local[r].component[1]),
                  MatchedCount(projects, [project_id |-> req[r].pid]))
        /\ UNCHANGED <<users, components, issued>>
     \/ WriteFails(r)

(* ------------ /api/projects/<project_id>/components/<component_id> (PUT, DELETE) *)
\* lines 244-248
HandleComponentFindProject(r) ==
  /\ pc[r] = "component_find_project"
  /\ UNCHANGED <<users, projects, components, issued>>
  /\ LET project == FindOwnedProject(req[r].pid, req[r].user)
     IN  IF project = <<>> THEN Finish(r, 404, Error("Project not found"), 0)
         ELSE Goto(r, "component_find", local[r])  \* project is not read again

\* lines 250-255, 272
HandleComponentFind(r) ==
  /\ pc[r] = "component_find"
  /\ UNCHANGED <<users, projects, components, issued>>
  /\ LET component == FindComponentOf(req[r].cid, req[r].pid)
     IN  IF component = <<>> THEN Finish(r, 404, Error("Component not found"), 0)
         ELSE IF req[r].op = "component_put"
           THEN Goto(r, "component_update", [local[r] EXCEPT !.component = component])
         ELSE Goto(r, "component_delete", local[r])  \* DELETE does not read component again

\* lines 257-262: as for a project, the omitted fields are written back from the
\* document this request read at line 250
ComponentUpdateData(data, component) ==
  [ properties |-> Get(data.properties, component.properties),
    content |-> Get(data.content, component.content),
    position |-> Get(data.position, component.position) ]

\* update_one({'component_id': component_id}, {'$set': update_data})
SetComponent(cid, update) == UpdateOne(components, [component_id |-> cid], update)

\* lines 264-267
HandleComponentUpdate(r) ==
  /\ pc[r] = "component_update"
  /\ \/ /\ components' = SetComponent(req[r].cid,
                            ComponentUpdateData(req[r].data, local[r].component[1]))
        /\ Goto(r, "component_reread",
                [local[r] EXCEPT !.res = MatchedCount(components, [component_id |-> req[r].cid])])
        /\ UNCHANGED <<users, projects, issued>>
     \/ WriteFails(r)

\* lines 269-270
HandleComponentReread(r) ==
  /\ pc[r] = "component_reread"
  /\ Finish(r, 200, Serialized(FindComponentById(req[r].cid)), local[r].res)
  /\ UNCHANGED <<users, projects, components, issued>>

\* line 273: components_collection.delete_one({'component_id': component_id})
HandleComponentDelete(r) ==
  /\ pc[r] = "component_delete"
  /\ \/ /\ components' = DeleteOne(components, [component_id |-> req[r].cid])
        /\ Goto(r, "component_pull",
                [local[r] EXCEPT !.res = MatchedCount(components, [component_id |-> req[r].cid])])
        /\ UNCHANGED <<users, projects, issued>>
     \/ WriteFails(r)

\* update_one({'project_id': project_id}, {'$pull': {'components': component_id}, ...})
PullComponent(pid, cid) ==
  LET i == FirstIndex(projects, [project_id |-> pid])
  IN  IF i = 0 THEN projects
      ELSE [projects EXCEPT ![i].components = Pull(@, cid)]

\* lines 276-281
HandleComponentPull(r) ==
  /\ pc[r] = "component_pull"
  /\ \/ /\ projects' = PullComponent(req[r].pid, req[r].cid)
        /\ Finish(r, 200, Message("Component deleted successfully"), local[r].res)
        /\ UNCHANGED <<users, components, issued>>
     \/ WriteFails(r)

(* ---------------------------------------------------------------- strings *)
\* the strings the code inspects are sequences of characters
UpperCase == << "A", "B", "C", "D", "E", "F", "G", "H", "I", "J", "K", "L", "M",
                "N", "O", "P", "Q", "R", "S", "T", "U", "V", "W", "X", "Y", "Z" >>
LowerCase == << "a", "b", "c", "d", "e", "f", "g", "h", "i", "j", "k", "l", "m",
                "n", "o", "p", "q", "r", "s", "t", "u", "v", "w", "x", "y", "z" >>

LowerChar(c) ==
  IF \E i \in 1..Len(UpperCase) : UpperCase[i] = c
    THEN LowerCase[CHOOSE i \in 1..Len(UpperCase) : UpperCase[i] = c]
    ELSE c

\* faulty variant: the type tag compared as it is stored
Lower_AsIs(s) == s

\* str.lower()
Lower(s) == IF s = <<>> THEN <<>> ELSE [i \in 1..Len(s) |-> LowerChar(s[i])]

\* sub in s
Contains(sub, s) ==
  \E i \in 0..(Len(s) - Len(sub)) : SubSeq(s, i + 1, i + Len(sub)) = sub

wHeader == <<"h", "e", "a", "d", "e", "r">>
wHero == <<"h", "e", "r", "o">>
wText == <<"t", "e", "x", "t">>
wForm == <<"f", "o", "r", "m">>
wButton == <<"b", "u", "t", "t", "o", "n">>

(* ------------------------------------------------ code generation helpers *)
\* lines 375-384 and 400-402: the fixed page skeleton
HtmlHead == "<!DOCTYPE html>...<body>"
HtmlTail == "<script src=script.js></script></body></html>"

\* lines 387-398, one iteration: the exceptions Python raises in it.
\* component.get('type', '') is None for a stored None, and None has no lower();
\* props.get is reached for a hero only, and needs a mapping.
ComponentRaises(component) ==
  \/ component.type.k # "str"
  \/ /\ Lower(component.type.v) = wHero
     /\ component.properties.k # "dict"

\* lines 387-398, one iteration: what is appended to html
HtmlFragment(component) ==
  LET comp_type == Lower(component.type.v)
      props == component.properties.v
      content == component.content
  IN  IF comp_type = wHeader THEN <<[tag |-> "header", args |-> <<content>>]>>
      ELSE IF comp_type = wHero
        THEN <<[tag |-> "hero",
                args |-> << Get(props.title, Str("Hero Title")),
                            Get(props.subtitle, Str("Hero subtitle")),
                            Get(props.buttonText, Str("Get Started")) >>]>>
      ELSE IF comp_type = wText THEN <<[tag |-> "text", args |-> <<content>>]>>
      ELSE IF comp_type = wForm THEN <<[tag |-> "form", args |-> <<>>]>>
      ELSE <<>>

RECURSIVE HtmlBody(_)
HtmlBody(comps) ==
  IF comps = <<>> THEN <<>> ELSE HtmlFragment(Head(comps)) \o HtmlBody(Tail(comps))

\* lines 374-404
generate_html(comps) == <<HtmlHead>> \o HtmlBody(comps) \o <<HtmlTail>>

\* lines 406-454, 456-469, 486-495: constant text
generate_css(comps) == "styles.css"
generate_js(comps) == "script.js"
generate_db_schema(comps) == "schema.sql"

\* lines 471-484: the stub, with the project's name in it
generate_python_api(project, comps) == <<"flask_stub", project.name>>

(* ------------------------------------------------ /api/generate-code (POST) *)
\* lines 290-296
GenerateCodeFind(r) ==
  /\ pc[r] = "generate_find"
  /\ UNCHANGED <<users, projects, components, issued>>
  /\ LET project == FindOwnedProject(req[r].pid, req[r].user)
     IN  IF project = <<>> THEN Finish(r, 404, Error("Project not found"), 0)
         ELSE Goto(r, "generate_build", [local[r] EXCEPT !.project = project])

\* lines 299-327
GenerateCodeBuild(r) ==
  /\ pc[r] = "generate_build"
  /\ UNCHANGED <<users, projects, components, issued>>
  /\ LET comps == ComponentsOf(req[r].pid)
     IN  IF \E i \in 1..Len(comps) : ComponentRaises(comps[i])
           THEN Finish(r, 500, Error("exception"), 0)
           ELSE Finish(r, 200,
                       [k |-> "code",
                        v |-> [ html |-> generate_html(comps),
                                css |-> generate_css(comps),
                                js |-> generate_js(comps),
                                python |-> generate_python_api(local[r].project[1], comps),
                                schema |-> generate_db_schema(comps) ]], 0)

(* ------------------------------------------------------- /api/deploy (POST) *)
\* lines 333-348
DeployProject(r) ==
  /\ pc[r] = "deploy"
  /\ UNCHANGED <<users, projects, components, issued>>
  /\ LET project == FindOwnedProject(req[r].pid, req[r].user)
     IN  IF project = <<>> THEN Finish(r, 404, Error("Project not found"), 0)
         ELSE Finish(r, 200,
                     [k |-> "deployed",
                      v |-> <<req[r].pid, Get(req[r].data.platform, Str("vercel"))>>], 0)

(* ------------------------------------------------- /api/ai-assistant (POST) *)
\* lines 497-509; prompt.lower() raises on None
AiRaises(prompt) == prompt.k # "str"

simulate_ai_response(prompt, project_id) ==
  LET prompt_lower == Lower(prompt.v)
  IN  IF Contains(wHeader, prompt_lower) THEN <<"header added">>
      ELSE IF Contains(wHero, prompt_lower) THEN <<"hero created">>
      ELSE IF Contains(wForm, prompt_lower) THEN <<"form added">>
      ELSE IF Contains(wButton, prompt_lower) THEN <<"button created">>
      ELSE <<"processed", prompt.v>>

\* lines 356-371: data.get('prompt') is None when the body has no prompt
AiAssistant(r) ==
  /\ pc[r] = "assistant"
  /\ UNCHANGED <<users, projects, components, issued>>
  /\ LET prompt == Get(req[r].data.prompt, None)
     IN  IF AiRaises(prompt) THEN Finish(r, 500, Error("exception"), 0)
         ELSE Finish(r, 200,
                     [k |-> "ai", v |-> simulate_ai_response(prompt, req[r].pid)], 0)

(* ------------------------------------------------------------- requests *)
\* the handler's first label
Entry(op) ==
  CASE op = "signup" -> "signup_check"
    [] op = "list" -> "list"
    [] op = "create" -> "create"
    [] op \in {"project_get", "project_put", "project_delete"} -> "project_find"
    [] op = "component_add" -> "add_find"
    [] op \in {"component_put", "component_delete"} -> "component_find_project"
    [] op = "generate" -> "generate_find"
    [] op = "deploy" -> "deploy"
    [] op = "assistant" -> "assistant"

InFlight(labels) == Cardinality({s \in Slots : pc[s] \in labels})

\* generate_id() never runs dry; the model hands out boundedly many ids, so a
\* request that will ask for one starts only while one is left for it
IdLeft(op) ==
  /\ op = "signup" => issued.user + InFlight({"signup_check", "signup_insert"}) < MaxSignups
  /\ op = "create" => issued.project + InFlight({"create"}) < MaxProjects
  /\ op = "component_add" =>
       issued.component + InFlight({"add_find", "add_insert"}) < MaxComponents

\* a request arrives and a free thread takes it (the threads are interchangeable:
\* the free one with the lowest number); at most max requests arrive in a run
Start(r, requests, max) ==
  /\ pc[r] = "idle"
  /\ \A s \in Slots : s < r => pc[s] # "idle"
  /\ arrived < max
  /\ arrived' = arrived + 1
  /\ \E q \in requests :
       /\ IdLeft(q.op)
       /\ req' = [req EXCEPT ![r] = q]
       /\ pc' = [pc EXCEPT ![r] = Entry(q.op)]
  /\ response' = NoResp
  /\ UNCHANGED <<users, projects, components, issued, local>>

Request(op, user, pid, cid, data) ==
  [op |-> op, user |-> user, pid |-> pid, cid |-> cid, data |-> data]

EmailOf(i) == Str(<<"user", i, "@example.com">>)
TitleProps == Dict([title |-> Str("T"), subtitle |-> Absent, buttonText |-> Absent])

\* request bodies per route
CreateRequests(U, names) ==
  { Request("create", u, 0, 0, [NoData EXCEPT !.name = n]) : u \in U, n \in names }

ListRequests(U) == { Request("list", u, 0, 0, NoData) : u \in U }

PlainRequests(ops, U) ==
  { Request(op, u, p, 0, NoData) : op \in ops, u \in U, p \in ProjectIds }

ProjectPutRequests(U, names, descriptions) ==
  { Request("project_put", u, p, 0, [NoData EXCEPT !.name = n, !.description = d]) :
      u \in U, p \in ProjectIds, n \in names, d \in descriptions }

AddRequests(U, bodies) ==
  { Request("component_add", u, p, 0, b) : u \in U, p \in ProjectIds, b \in bodies }

ComponentPutRequests(U, bodies) ==
  { Request("component_put", u, p, c, b) :
      u \in U, p \in ProjectIds, c \in ComponentIds, b \in bodies }

ComponentDeleteRequests(U) ==
  { Request("component_delete", u, p, c, NoData) :
      u \in U, p \in ProjectIds, c \in ComponentIds }

HeaderBody == [NoData EXCEPT !.type = Str(wHeader)]

(* ------------------------------------------------------------------ Spec *)
(* The project and component routes, called concurrently by the users.      *)
RegisteredUser(i) ==
  [ user_id |-> i, email |-> EmailOf(i),
    password |-> PasswordHash(Str("pw")), name |-> None ]

\* no request is running
Quiet ==
  /\ arrived = 0
  /\ req = [r \in Slots |-> NoReq]
  /\ pc = [r \in Slots |-> "idle"]
  /\ local = [r \in Slots |-> NoLocal]
  /\ response = NoResp

\* the store once NUsers users have signed up; no project yet
Init ==
  /\ users = [i \in UserIds |-> RegisteredUser(i)]
  /\ projects = <<>>
  /\ components = <<>>
  /\ issued = [user |-> NUsers, project |-> 0, component |-> 0]
  /\ Quiet

\* Spec: one user's requests
Owner == {1}

StoreRequests ==
  UNION { CreateRequests(Owner, {Absent}),
          PlainRequests({"project_delete"}, Owner),
          ProjectPutRequests(Owner, {Str("n2")}, {Absent}),
          ProjectPutRequests(Owner, {Absent}, {Str("d2")}),
          AddRequests(Owner, {HeaderBody}),
          ComponentPutRequests(Owner, {[NoData EXCEPT !.content = Str("c2")],
                                       [NoData EXCEPT !.properties = TitleProps]}),
          ComponentDeleteRequests(Owner) }

Next ==
  \E r \in Slots :
    \/ Start(r, StoreRequests, MaxRequests)
    \/ CreateProject(r)
    \/ HandleProjectFind(r)
    \/ HandleProjectUpdate(r)
    \/ HandleProjectReread(r)
    \/ HandleProjectDelete(r)
    \/ HandleProjectCascade(r)
    \/ AddComponentFind(r)
    \/ AddComponentInsert(r)
    \/ AddComponentPush(r)
    \/ HandleComponentFindProject(r)
    \/ HandleComponentFind(r)
    \/ HandleComponentUpdate(r)
    \/ HandleComponentReread(r)
    \/ HandleComponentDelete(r)
    \/ HandleComponentPull(r)

Spec == Init /\ [][Next]_vars

(* --------------------------------------------------------- SpecIsolation *)
(* Every project and component route, called by every user.                *)
IsolationRequests ==
  UNION { CreateRequests(UserIds, {Absent}),
          ListRequests(UserIds),
          PlainRequests({"project_get", "project_delete", "generate", "deploy"}, UserIds),
          ProjectPutRequests(UserIds, {Str("n2")}, {Absent}),
          AddRequests(UserIds, {HeaderBody}),
          ComponentPutRequests(UserIds, {[NoData EXCEPT !.content = Str("c2")]}),
          ComponentDeleteRequests(UserIds) }

NextIsolation ==
  \E r \in Slots :
    \/ Start(r, IsolationRequests, MaxIsolationRequests)
    \/ ListProjects(r)
    \/ CreateProject(r)
    \/ HandleProjectFind(r)
    \/ HandleProjectUpdate(r)
    \/ HandleProjectReread(r)
    \/ HandleProjectDelete(r)
    \/ HandleProjectCascade(r)
    \/ AddComponentFind(r)
    \/ AddComponentInsert(r)
    \/ AddComponentPush(r)
    \/ HandleComponentFindProject(r)
    \/ HandleComponentFind(r)
    \/ HandleComponentUpdate(r)
    \/ HandleComponentReread(r)
    \/ HandleComponentDelete(r)
    \/ HandleComponentPull(r)
    \/ GenerateCodeFind(r)
    \/ GenerateCodeBuild(r)
    \/ DeployProject(r)

SpecIsolation == Init /\ [][NextIsolation]_vars

(* ------------------------------------------------------------ SpecSignup *)
(* Signups running concurrently on an empty store.                         *)
InitEmpty ==
  /\ users = <<>>
  /\ projects = <<>>
  /\ components = <<>>
  /\ issued = [user |-> 0, project |-> 0, component |-> 0]
  /\ Quiet

SignupRequests ==
  { Request("signup", 0, 0, 0, [NoData EXCEPT !.email = e, !.password = p, !.name = n]) :
      e \in {Absent} \cup {EmailOf(i) : i \in 1..MaxSignups},
      p \in {Absent, Str("pw")}, n \in {Absent, Str("Ann")} }

NextSignup ==
  \E r \in Slots :
    \/ Start(r, SignupRequests, MaxRequests)
    \/ SignupCheck(r)
    \/ SignupInsert(r)

SpecSignup == InitEmpty /\ [][NextSignup]_vars

(* --------------------------------------------------------------- SpecGen *)
(* One user builds a project from every kind of component body and has the *)
(* code generated.                                                         *)
wHeaderCap == <<"H", "e", "a", "d", "e", "r">>
wHeroUpper == <<"H", "E", "R", "O">>
wFoobar == <<"f", "o", "o", "b", "a", "r">>

GenBodies ==
  { [NoData EXCEPT !.type = Str(wHeader), !.content = Str("Welcome")],
    [NoData EXCEPT !.type = Str(wHeaderCap), !.content = Str("Welcome")],
    [NoData EXCEPT !.type = Str(wHero)],
    [NoData EXCEPT !.type = Str(wHeroUpper), !.properties = TitleProps],
    [NoData EXCEPT !.type = Str(wHero), !.properties = NotADict],
    [NoData EXCEPT !.type = Str(wText), !.content = Str("Hello")],
    [NoData EXCEPT !.type = Str(wForm)],
    [NoData EXCEPT !.type = Str(wFoobar), !.content = Str("Welcome")],
    [NoData EXCEPT !.content = Str("Welcome")] }

GenRequests ==
  UNION { CreateRequests(Owner, {Str("Site")}),
          AddRequests(Owner, GenBodies),
          ComponentPutRequests(Owner, {[NoData EXCEPT !.properties = NotADict],
                                       [NoData EXCEPT !.properties = TitleProps]}),
          PlainRequests({"generate"}, Owner) }

NextGen ==
  \E r \in Slots :
    \/ Start(r, GenRequests, MaxRequests)
    \/ CreateProject(r)
    \/ AddComponentFind(r)
    \/ AddComponentInsert(r)
    \/ AddComponentPush(r)
    \/ HandleComponentFindProject(r)
    \/ HandleComponentFind(r)
    \/ HandleComponentUpdate(r)
    \/ HandleComponentReread(r)
    \/ GenerateCodeFind(r)
    \/ GenerateCodeBuild(r)

SpecGen == Init /\ [][NextGen]_vars

(* -------------------------------------------------------------- SpecHtml *)
(* generate-code as a function of the stored components: the store holds   *)
(* one project of user 1 with up to MaxHtmlComponents components, each as  *)
(* add_component stores one of the bodies above, in any insertion order;   *)
(* concurrent adds push the ids in any order, so the project's list is any *)
(* arrangement of the ids.                                                 *)
StoredComponent(cid, pid, body) ==
  [ component_id |-> cid, project_id |-> pid,
    type |-> Get(body.type, None),
    properties |-> Get(body.properties, EmptyProps),
    content |-> Get(body.content, Str("")),
    position |-> Get(body.position, DefaultPosition) ]

Arrangements(n) ==
  { l \in [1..n -> 1..n] : \A i, j \in 1..n : i # j => l[i] # l[j] }

InitHtml ==
  /\ users = [i \in UserIds |-> RegisteredUser(i)]
  /\ \E n \in 0..MaxHtmlComponents :
       \E bodies \in [1..n -> GenBodies], list \in Arrangements(n) :
         /\ components = [i \in 1..n |-> StoredComponent(i, 1, bodies[i])]
         /\ projects = << [ project_id |-> 1, user_id |-> 1, name |-> Str("Site"),
                            description |-> Str(""), components |-> list ] >>
         /\ issued = [user |-> NUsers, project |-> 1, component |-> n]
  /\ Quiet

NextHtml ==
  \E r \in Slots :
    \/ Start(r, PlainRequests({"generate"}, Owner), MaxHtmlRequests)
    \/ GenerateCodeFind(r)
    \/ GenerateCodeBuild(r)

SpecHtml == InitHtml /\ [][NextHtml]_vars

(* --------------------------------------------------------- SpecAssistant *)
(* The assistant route, on a store that holds a project with a component.  *)
PromptPieces ==
  { <<>>, wHeader, wForm, wButton, <<"x", "y", "z">>, <<"h", "e">>, <<"R", "o">> }

Prompts == {Absent} \cup {Str(a \o b) : a \in PromptPieces, b \in PromptPieces}

AssistantRequests ==
  UNION { CreateRequests(Owner, {Absent}),
          AddRequests(Owner, {HeaderBody}),
          { Request("assistant", u, p, 0, [NoData EXCEPT !.prompt = t]) :
              u \in Owner, p \in ProjectIds, t \in Prompts } }

NextAssistant ==
  \E r \in Slots :
    \/ Start(r, AssistantRequests, MaxRequests)
    \/ CreateProject(r)
    \/ AddComponentFind(r)
    \/ AddComponentInsert(r)
    \/ AddComponentPush(r)
    \/ AiAssistant(r)

SpecAssistant == Init /\ [][NextAssistant]_vars

(* ----------------------------------------------------------- SpecReliable *)
(* Spec with a store whose writes never raise: what remains is the         *)
(* interleaving of the requests' store calls.                              *)
NextReliable == Next /\ response'.status # 500

SpecReliable == Init /\ [][NextReliable]_vars

(* ================================================================ claims *)
AllIdle == \A r \in Slots : pc[r] = "idle"

ProjectExists(pid) == \E j \in 1..Len(projects) : projects[j].project_id = pid

\* every component record names an existing project
ComponentsHaveProjects ==
  \A i \in 1..Len(components) : ProjectExists(components[i].project_id)

\* every project's list holds exactly the ids of its component records, once each
ListsMatchRecords ==
  \A j \in 1..Len(projects) :
    LET p == projects[j]
    IN  /\ \A k \in 1..Len(p.components) :
             \E i \in 1..Len(components) :
               /\ components[i].component_id = p.components[k]
               /\ components[i].project_id = p.project_id
        /\ \A k, l \in 1..Len(p.components) : k # l => p.components[k] # p.components[l]
        /\ \A i \in 1..Len(components) :
             components[i].project_id = p.project_id =>
               \E k \in 1..Len(p.components) : p.components[k] = components[i].component_id

\* C1: whenever no request is in progress, every component record's project_id
\* names an existing project and every project's components list holds exactly
\* the ids of the component records whose project_id is that project's id, each
\* exactly once.
C1_ConsistentWhenQuiet ==
  AllIdle => (ComponentsHaveProjects /\ ListsMatchRecords)

\* C2: Project Delete is all-or-nothing for its caller: when it answers success
\* the project and every component of it are gone, and when it answers an error
\* this request has removed nothing (the deleted_count of its delete_one is 0).
C2_ProjectDeleteAllOrNothing ==
  response.op = "project_delete" =>
    /\ response.status = 200 =>
         (~ProjectExists(response.pid) /\ ComponentsOf(response.pid) = <<>>)
    /\ response.status = 500 => response.res = 0

\* C3: at most one user record exists per email.
C3_OneUserPerEmail ==
  \A i, j \in 1..Len(users) : i # j => users[i].email # users[j].email

\* C4: in no state, the states between the two writes of Component Add and of
\* Component Delete included, does a project's components list hold an id without
\* a component record, or a component record of the project lack its id in the list.
C4_WritesTakeEffectTogether == ListsMatchRecords


ProjectRoutes ==
  { "project_get", "project_put", "project_delete", "component_add",
    "component_put", "component_delete", "generate", "deploy" }

\* thread r runs a request of a user on a project that exists and is another user's
Foreign(r) ==
  /\ req[r].op \in ProjectRoutes
  /\ \E j \in 1..Len(projects) :
       /\ projects[j].project_id = req[r].pid
       /\ projects[j].user_id # req[r].user

\* C5: a step of a request that names another user's project answers NotFound and
\* leaves the projects (their components lists included) and the components as
\* they were; and Project List answers with the caller's own projects only.
C5_Isolation ==
  [][ /\ \A r \in Slots :
           (Foreign(r) /\ pc'[r] # pc[r]) =>
             /\ projects' = projects
             /\ components' = components
             /\ pc'[r] = "idle"
             /\ response'.status = 404
      /\ response'.op = "list" =>
           \A j \in 1..Len(response'.body.v) : response'.body.v[j].user_id = response'.user
    ]_vars

\* C5 witness: a Component Update on another user's project, which holds a
\* component, has been answered NotFound
C5_Witness ==
  /\ response.op = "component_put"
  /\ response.status = 404
  /\ \E j \in 1..Len(projects) :
       /\ projects[j].project_id = response.pid
       /\ projects[j].user_id # response.user
       /\ projects[j].components # <<>>
  /\ FindComponentOf(response.cid, response.pid) # <<>>

\* C6: the write of a Project Update or Component Update leaves every field its
\* body omitted at the value the store held just before that write.
C6_PartialUpdate ==
  [][ \A r \in Slots :
        /\ (pc[r] = "project_update" /\ pc'[r] = "project_reread") =>
             \A j \in 1..Len(projects) :
               projects[j].project_id = req[r].pid =>
                 /\ req[r].data.name = Absent => projects'[j].name = projects[j].name
                 /\ req[r].data.description = Absent =>
                      projects'[j].description = projects[j].description
                 /\ projects'[j].components = projects[j].components
        /\ (pc[r] = "component_update" /\ pc'[r] = "component_reread") =>
             \A i \in 1..Len(components) :
               components[i].component_id = req[r].cid =>
                 /\ req[r].data.properties = Absent =>
                      components'[i].properties = components[i].properties
                 /\ req[r].data.content = Absent =>
                      components'[i].content = components[i].content
                 /\ req[r].data.position = Absent =>
                      components'[i].position = components[i].position
                 /\ components'[i].type = components[i].type
    ]_vars

\* C7: generate-code answers success with the three artifacts, or NotFound, and
\* never an Internal error.
C7_GenerateNeverFails ==
  response.op = "generate" =>
    \/ response.status = 404
    \/ response.status = 200 /\ response.body.k = "code"

\* C10: a project or component id that generate_id() has handed out and whose
\* record is not in the store (it was deleted) has no record after any step.
C10_NoResurrection ==
  [][ /\ \A id \in 1..issued.project :
           (\A j \in 1..Len(projects) : projects[j].project_id # id) =>
             (\A j \in 1..Len(projects') : projects'[j].project_id # id)
      /\ \A id \in 1..issued.component :
           (\A i \in 1..Len(components) : components[i].component_id # id) =>
             (\A i \in 1..Len(components') : components'[i].component_id # id)
    ]_vars

\* C10 witness: a Project Update has written after the project it had read was
\* deleted (its update_one matched nothing), and the project is still gone
C10_Witness ==
  \E r \in Slots :
    /\ pc[r] = "project_reread"
    /\ local[r].res = 0
    /\ ~ProjectExists(req[r].pid)


RECURSIVE Flatten(_)
Flatten(seqs) == IF seqs = <<>> THEN <<>> ELSE Head(seqs) \o Flatten(Tail(seqs))

\* the fragment of a component rendered as tag
Rendered(tag, c) ==
  CASE tag = "header" -> <<[tag |-> "header", args |-> <<c.content>>]>>
    [] tag = "text" -> <<[tag |-> "text", args |-> <<c.content>>]>>
    [] tag = "form" -> <<[tag |-> "form", args |-> <<>>]>>
    [] tag = "hero" ->
         <<[tag |-> "hero",
            args |-> << IF c.properties.v.title = Absent
                          THEN Str("Hero Title") ELSE c.properties.v.title,
                        IF c.properties.v.subtitle = Absent
                          THEN Str("Hero subtitle") ELSE c.properties.v.subtitle,
                        IF c.properties.v.buttonText = Absent
                          THEN Str("Get Started") ELSE c.properties.v.buttonText >>]>>
    [] OTHER -> <<>>

\* the tag a component is rendered as when its type tag has to be exactly
\* header, hero, text or form
ExactTag(c) ==
  IF c.type.k # "str" THEN "none"
  ELSE IF c.type.v = wHeader THEN "header"
  ELSE IF c.type.v = wHero THEN "hero"
  ELSE IF c.type.v = wText THEN "text"
  ELSE IF c.type.v = wForm THEN "form"
  ELSE "none"

\* the same, with the case of the letters ignored (over the type tags in use)
FoldedTag(c) ==
  IF c.type.k # "str" THEN "none"
  ELSE IF c.type.v \in {wHeader, wHeaderCap} THEN "header"
  ELSE IF c.type.v \in {wHero, wHeroUpper} THEN "hero"
  ELSE IF c.type.v = wText THEN "text"
  ELSE IF c.type.v = wForm THEN "form"
  ELSE "none"

Page(fragments) == <<HtmlHead>> \o Flatten(fragments) \o <<HtmlTail>>

\* C8 as stated: the markup generate-code returns is the skeleton around the
\* fragments of the components taken in the order of the project's components
\* list, a fragment only for a type tag that is exactly header, hero, text or form.
C8_MarkupByListOrder ==
  (response.op = "generate" /\ response.status = 200) =>
    LET list == FindProjectById(response.pid)[1].components
        comp(k) == FindComponentById(list[k])[1]
    IN  response.body.v.html =
          Page([k \in 1..Len(list) |-> Rendered(ExactTag(comp(k)), comp(k))])

\* C8 as amended: the markup generate-code returns is the skeleton around the
\* fragments of the project's component records taken in the order the component
\* query returns them, a fragment for a type tag that is header, hero, text or
\* form once lower-cased; so the markup is a function of the components.
C8_MarkupByQueryOrder ==
  (response.op = "generate" /\ response.status = 200) =>
    LET comps == ComponentsOf(response.pid)
    IN  response.body.v.html =
          Page([i \in 1..Len(comps) |-> Rendered(FoldedTag(comps[i]), comps[i])])

\* C8 witness: markup with two fragments has been returned for a project whose
\* list is not in the order of its records and which holds a capitalised type tag
C8_Witness ==
  /\ response.op = "generate"
  /\ response.status = 200
  /\ Len(response.body.v.html) = 4
  /\ FindProjectById(response.pid)[1].components = <<2, 1>>
  /\ \E i \in 1..Len(components) : components[i].type = Str(wHeaderCap)

\* the canned answers, by priority
ExpectedAnswer(prompt) ==
  LET p == Lower(prompt.v)
  IN  CASE Contains(wHeader, p) -> <<"header added">>
        [] ~Contains(wHeader, p) /\ Contains(wHero, p) -> <<"hero created">>
        [] ~Contains(wHeader, p) /\ ~Contains(wHero, p) /\ Contains(wForm, p) -> <<"form added">>
        [] ~Contains(wHeader, p) /\ ~Contains(wHero, p) /\ ~Contains(wForm, p)
             /\ Contains(wButton, p) -> <<"button created">>
        [] OTHER -> <<"processed", prompt.v>>

\* C9: Assistant Respond answers success, with the canned string of the first of
\* header, hero, form, button found in the lower-cased prompt or else the fallback
\* holding the prompt, for every request.
C9_AssistantNeverFails ==
  response.op = "assistant" =>
    /\ response.status = 200
    /\ response.body.v = ExpectedAnswer(response.data.prompt)

====
